---- MODULE Spec2Model ----
(***************************************************************************)
(* Card issuance protocol client of kijustyle/api.                         *)
(*                                                                         *)
(* The model follows src/src/services/cardService.js (the current          *)
(* issueCard / issueBatchCard / sendToCardServer), src/unnamed/part_006    *)
(* (the earlier issueCard, issueCardWithBatchMode and the issueBatchCards  *)
(* driver) and src/unnamed/part_005 (the employee lookup that supplies the *)
(* card count of a single issuance).                                       *)
(*                                                                         *)
(* One issuance attempt is a record att[a]; each await of the JavaScript   *)
(* code is a step boundary, each socket event handler is one action.  The  *)
(* datastore keeps a transaction's writes in the attempt until commit      *)
(* (writes issued with the `transaction` option) and applies them          *)
(* atomically at commit; a write issued without the option is applied at   *)
(* once.                                                                   *)
(***************************************************************************)
EXTENDS Integers, Sequences, FiniteSets, TLC

VARIABLES att, TB_CARD_ISSUE, TB_CARD, TB_CARD_BATCH_SAV, overlap, drv

vars == <<att, TB_CARD_ISSUE, TB_CARD, TB_CARD_BATCH_SAV, overlap, drv>>

(***************************************************************************)
(* Bounds of the model.                                                    *)
(***************************************************************************)
MaxAttempts == 3
MaxConcurrent == 2
MaxBatchLen == 2
MaxConcAttempts == 2

\* the requests of a run in which they are served one at a time
MaxSeqAttempts == 2
MaxHttpRequests == 1

Attempts == 1..MaxAttempts

(***************************************************************************)
(* Text.  A text is a sequence of one-character strings; a byte string     *)
(* received from the device is a sequence of byte tokens, where an ASCII   *)
(* byte is written as its character and the two bytes of the MS949         *)
(* double-byte character U+C2E4 are written "xBD" and "xC7".               *)
(***************************************************************************)
Q == "\""

Digits == {"0", "1", "2", "3", "4", "5", "6", "7", "8", "9"}

LeadBytes == {"xBD", "xC7"}

Replacement == "uFFFD"

DBCS(lead, trail) == IF lead = "xBD" /\ trail = "xC7" THEN "uC2E4" ELSE Replacement

RECURSIVE MS949Decode(_)
MS949Decode(bytes) ==
  IF bytes = <<>> THEN <<>>
  ELSE IF Head(bytes) \notin LeadBytes THEN <<Head(bytes)>> \o MS949Decode(Tail(bytes))
  ELSE IF Len(bytes) = 1 THEN <<Replacement>>
  ELSE IF DBCS(bytes[1], bytes[2]) = Replacement
       THEN <<Replacement>> \o MS949Decode(Tail(bytes))
       ELSE <<DBCS(bytes[1], bytes[2])>> \o MS949Decode(Tail(Tail(bytes)))

Includes(s, sub) ==
  \E i \in 1..(Len(s) - Len(sub) + 1) : SubSeq(s, i, i + Len(sub) - 1) = sub

(***************************************************************************)
(* JSON.parse on the texts the device can send: an object of string or     *)
(* number members without whitespace, escapes or nesting, or a bare string *)
(* or number.  Any other text is a SyntaxError.                            *)
(***************************************************************************)
BadScalar == [ok |-> FALSE, t |-> "", v |-> <<>>, next |-> 0]

RECURSIVE StrEnd(_, _)
StrEnd(s, j) == IF j > Len(s) THEN 0 ELSE IF s[j] = Q THEN j ELSE StrEnd(s, j + 1)

RECURSIVE NumEnd(_, _)
NumEnd(s, j) == IF j <= Len(s) /\ s[j] \in Digits THEN NumEnd(s, j + 1) ELSE j

ParseScalar(s, i) ==
  IF i > Len(s) THEN BadScalar
  ELSE IF s[i] = Q
    THEN LET e == StrEnd(s, i + 1) IN
         IF e = 0 THEN BadScalar
         ELSE [ok |-> TRUE, t |-> "str", v |-> SubSeq(s, i + 1, e - 1), next |-> e + 1]
  ELSE IF s[i] \in Digits
    THEN LET e == NumEnd(s, i) IN
         IF s[i] = "0" /\ e > i + 1 THEN BadScalar
         ELSE [ok |-> TRUE, t |-> "num", v |-> SubSeq(s, i, e - 1), next |-> e]
  ELSE BadScalar

SyntaxError == [ok |-> FALSE, t |-> "", members |-> <<>>]

RECURSIVE ParseMembers(_, _, _)
ParseMembers(s, i, acc) ==
  LET k == ParseScalar(s, i) IN
  IF ~k.ok \/ k.t # "str" \/ k.next > Len(s) THEN SyntaxError
  ELSE IF s[k.next] # ":" THEN SyntaxError
  ELSE LET v == ParseScalar(s, k.next + 1) IN
       IF ~v.ok \/ v.next > Len(s) THEN SyntaxError
       ELSE LET acc2 == Append(acc, [key |-> k.v, t |-> v.t, v |-> v.v]) IN
            IF s[v.next] = "}"
              THEN IF v.next = Len(s)
                     THEN [ok |-> TRUE, t |-> "obj", members |-> acc2]
                     ELSE SyntaxError
            ELSE IF s[v.next] = "," THEN ParseMembers(s, v.next + 1, acc2)
            ELSE SyntaxError

JSONparse(s) ==
  IF s = <<>> THEN SyntaxError
  ELSE IF s[1] = "{"
    THEN IF Len(s) = 2 /\ s[2] = "}"
           THEN [ok |-> TRUE, t |-> "obj", members |-> <<>>]
           ELSE ParseMembers(s, 2, <<>>)
  ELSE LET v == ParseScalar(s, 1) IN
       IF v.ok /\ v.next = Len(s) + 1
         THEN [ok |-> TRUE, t |-> v.t, members |-> <<>>]
         ELSE SyntaxError

Undefined == [def |-> FALSE, t |-> "", v |-> <<>>]

\* parsed.key: the last member of that name, or undefined
Prop(parsed, key) ==
  LET idx == {i \in 1..Len(parsed.members) : parsed.members[i].key = key} IN
  IF idx = {} THEN Undefined
  ELSE LET m == parsed.members[CHOOSE i \in idx : \A j \in idx : j <= i] IN
       [def |-> TRUE, t |-> m.t, v |-> m.v]

\* JavaScript truthiness of a parsed property
Truthy(p) == p.def /\ p.v # <<>> /\ ~(p.t = "num" /\ p.v = <<"0">>)

(***************************************************************************)
(* The replies of the card device used as inputs.                          *)
(***************************************************************************)
Str(s) == <<Q>> \o s \o <<Q>>

K_result == <<"r", "e", "s", "u", "l", "t">>

K_cardCSN == <<"c", "a", "r", "d", "C", "S", "N">>

Code100 == <<"1", "0", "0">>

TextOK == <<"O", "K">>

Obj1(k, v) == <<"{">> \o Str(k) \o <<":">> \o Str(v) \o <<"}">>

Obj2(k1, v1, k2, v2) ==
  <<"{">> \o Str(k1) \o <<":">> \o Str(v1) \o <<",">> \o Str(k2) \o <<":">> \o Str(v2) \o <<"}">>

CSN1 == <<"A", "B", "C", "1", "2", "3">>

ReplyOkCsn == Obj2(K_result, Code100, K_cardCSN, CSN1)

ReplyOkNoCsn == Obj1(K_result, Code100)

Reply200 == Obj1(K_result, <<"2", "0", "0">>)

Reply1001 == Obj1(K_result, <<"1", "0", "0", "1">>)

ReplyRawOk == <<"O", "K", "|", "1">>

ReplyRawErr == <<"E", "R", "R">>

ReplyEmpty == <<>>

\* the two bytes of one double-byte character
ReplyHangul == <<"xBD", "xC7">>

Replies ==
  {ReplyOkCsn, ReplyOkNoCsn, Reply200, Reply1001, ReplyRawOk, ReplyRawErr, ReplyEmpty,
   ReplyHangul}

(***************************************************************************)
(* Test data: the employees, the operator and the card types.              *)
(***************************************************************************)
Employees == {"E1", "E2", "E3"}

\* TB_MEMBER.m_status: E1 is working, E2 is not, E3 has no TB_MEMBER row ("")
MemberStatus(e) == IF e = "E1" THEN "W" ELSE IF e = "E2" THEN "R" ELSE ""

CardTypes == {"R", "P"}

Issuer == "ADM"

Placeholder == <<"-">>

(***************************************************************************)
(* Datastore rows.                                                         *)
(***************************************************************************)
NoCard == [present |-> FALSE, count |-> 0, status |-> "", sno |-> <<>>, type |-> "", att |-> 0]

HistWrite(e, n, sno, t) == [op |-> "hist", m_no |-> e, count |-> n, sno |-> sno, type |-> t]

CardWrite(e, n, sno, t) == [op |-> "card", m_no |-> e, count |-> n, sno |-> sno, type |-> t]

DelWrite(e) == [op |-> "del", m_no |-> e, count |-> 0, sno |-> <<>>, type |-> ""]

HistRow(w, a) == [m_no |-> w.m_no, count |-> w.count, sno |-> w.sno, type |-> w.type, att |-> a]

CardRow(w, a) ==
  [present |-> TRUE, count |-> w.count, status |-> "Y", sno |-> w.sno, type |-> w.type, att |-> a]

RECURSIVE ApplyHist(_, _, _)
ApplyHist(h, ws, a) ==
  IF ws = <<>> THEN h
  ELSE ApplyHist(IF Head(ws).op = "hist" THEN Append(h, HistRow(Head(ws), a)) ELSE h, Tail(ws), a)

RECURSIVE ApplyCard(_, _, _)
ApplyCard(c, ws, a) ==
  IF ws = <<>> THEN c
  ELSE ApplyCard(IF Head(ws).op = "card"
                   THEN [c EXCEPT ![Head(ws).m_no] = CardRow(Head(ws), a)]
                   ELSE c, Tail(ws), a)

RECURSIVE ApplySav(_, _)
ApplySav(s, ws) ==
  IF ws = <<>> THEN s
  ELSE ApplySav(IF Head(ws).op = "del"
                  THEN {x \in s : ~(x.m_no = Head(ws).m_no /\ x.create_id = Issuer)}
                  ELSE s, Tail(ws))

Ops(ws) == {ws[i].op : i \in 1..Len(ws)}

\* SELECT IFNULL(MAX(CARD_COUNT), 0) FROM TB_CARD_ISSUE WHERE M_NO = e
RECURSIVE MaxCount(_, _)
MaxCount(h, e) ==
  IF h = <<>> THEN 0
  ELSE LET m == MaxCount(Tail(h), e) IN
       IF Head(h).m_no = e /\ Head(h).count > m THEN Head(h).count ELSE m

\* IFNULL(c.card_count, 0) + 1 of the employee lookups (left join TB_CARD)
LookupCardCount(e) == (IF TB_CARD[e].present THEN TB_CARD[e].count ELSE 0) + 1

(***************************************************************************)
(* One issuance attempt.                                                   *)
(***************************************************************************)
\* a JavaScript value: undefined or null, a number, or a string
JsUndef == [t |-> "undef", n |-> 0, s |-> <<>>]

JsNum(n) == [t |-> "num", n |-> n, s |-> <<>>]

JsStr(s) == [t |-> "str", n |-> 0, s |-> s]

\* the cardData argument of buildCardIssueMessage
NoCardData ==
  [no |-> JsUndef, name |-> JsUndef, department |-> JsUndef, position |-> JsUndef,
   cardCount |-> JsUndef, cardType |-> JsUndef, photo_blob |-> JsUndef]

NoEmployee == [found |-> FALSE, card_type |-> "", cardType |-> "", card_count |-> 0]

Idle ==
  [kind |-> "", pc |-> "idle", emp |-> "", cardType |-> "", origCount |-> 0, cardCount |-> 0,
   given |-> FALSE, er |-> NoEmployee, cardCSN |-> <<>>, cardSno |-> <<>>,
   txRef |-> FALSE, txFin |-> "", writes |-> <<>>,
   sock |-> "none", timer |-> "none", wire |-> <<>>, responseData |-> <<>>,
   pstate |-> "none", pval |-> <<>>, perr |-> "",
   resp |-> <<>>, err |-> "", result |-> "", rbFailed |-> FALSE,
   persisted |-> {}, conns |-> 0, frames |-> 0, maxBefore |-> 0,
   rcvd |-> <<>>, status |-> 0, success |-> FALSE, cardData |-> NoCardData, frame |-> <<>>,
   headersSent |-> FALSE, responses |-> 0, routeFired |-> FALSE, clientGone |-> FALSE,
   unhandled |-> FALSE]

\* the request of attempt a is in flight: started and not yet answered
Running(a) == att[a].pc \notin {"idle", "fin"}

\* attempt a is the next one to start, at most n attempts are made, and fewer
\* than c calls are in flight
CanStart(a, c, n) ==
  /\ a <= n
  /\ att[a].pc = "idle"
  /\ \A b \in Attempts : b < a => att[b].pc # "idle"
  /\ Cardinality({b \in Attempts : Running(b)}) < c

NoteOverlap(a) == overlap' = overlap \cup {<<b, a>> : b \in {x \in Attempts : Running(x)}}

DbUnchanged == UNCHANGED <<TB_CARD_ISSUE, TB_CARD, TB_CARD_BATCH_SAV>>

(***************************************************************************)
(* sendToCardServer: the socket, the timer and the promise.                *)
(***************************************************************************)
\* the call itself: new net.Socket(), setTimeout, client.connect, the handlers
SendToCardServer(r) ==
  [r EXCEPT !.sock = "connecting", !.timer = "armed", !.wire = <<>>, !.responseData = <<>>,
            !.pstate = "pending", !.pval = <<>>, !.perr = "", !.conns = r.conns + 1]

Resolve(r, v) == IF r.pstate = "pending" THEN [r EXCEPT !.pstate = "resolved", !.pval = v] ELSE r

Reject(r, e) == IF r.pstate = "pending" THEN [r EXCEPT !.pstate = "rejected", !.perr = e] ELSE r

ClearTimeout(r) == IF r.timer = "armed" THEN [r EXCEPT !.timer = "cleared"] ELSE r

\* the connect callback: encode the frame and write it; the device then
\* decides the bytes it is going to answer with
OnConnect(a, reply) ==
  /\ att[a].sock = "connecting"
  /\ att' = [att EXCEPT ![a] = [@ EXCEPT !.sock = "open", !.frames = @ + 1, !.wire = reply]]
  /\ UNCHANGED <<TB_CARD_ISSUE, TB_CARD, TB_CARD_BATCH_SAV, overlap, drv>>

\* a data handler that also stops the timer, as if the timeout covered only
\* the wait for the first byte (used to test the sensitivity of C3)
OnDataClearsTimer(a, k) ==
  /\ att[a].sock = "open"
  /\ k \in 1..Len(att[a].wire)
  /\ att' = [att EXCEPT ![a] =
       [ClearTimeout(@) EXCEPT
          !.responseData = @ \o MS949Decode(SubSeq(att[a].wire, 1, k)),
          !.rcvd = @ \o SubSeq(att[a].wire, 1, k),
          !.wire = SubSeq(@, k + 1, Len(@))]]
  /\ UNCHANGED <<TB_CARD_ISSUE, TB_CARD, TB_CARD_BATCH_SAV, overlap, drv>>

\* client.on('data'): one chunk of k bytes arrives
OnData(a, k) ==
  /\ att[a].sock = "open"
  /\ k \in 1..Len(att[a].wire)
  /\ att' = [att EXCEPT ![a] =
       [@ EXCEPT !.responseData = @ \o MS949Decode(SubSeq(att[a].wire, 1, k)),
                 !.rcvd = @ \o SubSeq(att[a].wire, 1, k),
                 !.wire = SubSeq(@, k + 1, Len(@))]]
  /\ UNCHANGED <<TB_CARD_ISSUE, TB_CARD, TB_CARD_BATCH_SAV, overlap, drv>>

\* client.on('end'): the device has sent everything and closed its side
OnEnd(a) ==
  /\ att[a].sock = "open"
  /\ att[a].wire = <<>>
  /\ att' = [att EXCEPT ![a] =
       [Resolve(ClearTimeout(@), att[a].responseData) EXCEPT !.sock = "ended"]]
  /\ UNCHANGED <<TB_CARD_ISSUE, TB_CARD, TB_CARD_BATCH_SAV, overlap, drv>>

\* an error handler that connects again once instead of failing the call
\* (used to test the sensitivity of C24)
OnErrorReconnect(a) ==
  /\ att[a].sock \in {"connecting", "open"}
  /\ att' = [att EXCEPT ![a] =
       IF att[a].conns < 2 THEN SendToCardServer(@)
       ELSE [Reject(ClearTimeout(@), "conn") EXCEPT !.sock = "errored"]]
  /\ UNCHANGED <<TB_CARD_ISSUE, TB_CARD, TB_CARD_BATCH_SAV, overlap, drv>>

\* client.on('error'): refused, reset, unreachable
OnError(a) ==
  /\ att[a].sock \in {"connecting", "open"}
  /\ att' = [att EXCEPT ![a] = [Reject(ClearTimeout(@), "conn") EXCEPT !.sock = "errored"]]
  /\ UNCHANGED <<TB_CARD_ISSUE, TB_CARD, TB_CARD_BATCH_SAV, overlap, drv>>

\* client.on('close'), which follows 'end', 'error' and destroy(), or comes
\* alone when the connection is torn down without either; the closure of the
\* call is unreachable afterwards, so its buffers are dropped
OnClose(a) ==
  /\ att[a].sock \in {"open", "ended", "errored", "destroyed"}
  /\ att' = [att EXCEPT ![a] =
       [(IF att[a].responseData = <<>> THEN Reject(ClearTimeout(@), "noresp")
                                       ELSE ClearTimeout(@))
          EXCEPT !.sock = "closed", !.wire = <<>>, !.responseData = <<>>, !.rcvd = <<>>]]
  /\ UNCHANGED <<TB_CARD_ISSUE, TB_CARD, TB_CARD_BATCH_SAV, overlap, drv>>

\* the setTimeout callback: client.destroy() and reject
OnTimeout(a) ==
  /\ att[a].timer = "armed"
  /\ att' = [att EXCEPT ![a] =
       [Reject(@, "timeout") EXCEPT !.timer = "fired", !.sock = "destroyed"]]
  /\ UNCHANGED <<TB_CARD_ISSUE, TB_CARD, TB_CARD_BATCH_SAV, overlap, drv>>

(***************************************************************************)
(* The datastore calls of an attempt.                                      *)
(***************************************************************************)
\* the outer catch of cardService.issueCard and issueBatchCard: roll back when
\* the transaction exists and is not finished, then rethrow
Throw(r, e) ==
  IF r.txRef /\ r.txFin = ""
    THEN [r EXCEPT !.pc = "rollback", !.err = e]
    ELSE [r EXCEPT !.pc = "done", !.result = "error", !.err = e]

\* a catch that does not rethrow after a rollback that failed (used to test
\* the sensitivity of C16)
RollbackNoRethrow(a, ok) ==
  /\ att[a].pc = "rollback"
  /\ att' = [att EXCEPT ![a] =
       [@ EXCEPT !.pc = "done", !.result = IF ok THEN "error" ELSE "ok",
                 !.txFin = "rollback", !.writes = <<>>, !.rbFailed = ~ok]]
  /\ DbUnchanged
  /\ UNCHANGED <<overlap, drv>>

\* await transaction.rollback() inside the catch; a failure of the rollback is
\* logged and swallowed.  Either way the transaction is finished and its
\* connection is given up, so its writes are gone.
Rollback(a, ok) ==
  /\ att[a].pc = "rollback"
  /\ att' = [att EXCEPT ![a] =
       [@ EXCEPT !.pc = "done", !.result = "error", !.txFin = "rollback",
                 !.writes = <<>>, !.rbFailed = ~ok]]
  /\ DbUnchanged
  /\ UNCHANGED <<overlap, drv>>

\* await sequelize.query(sql, {..., transaction}) for one write w, or the same
\* call without the transaction option (inTx = FALSE), which autocommits
Query(a, w, inTx, nextpc, ok, tag) ==
  IF ~ok
    THEN att' = [att EXCEPT ![a] = Throw(@, tag)] /\ DbUnchanged
  ELSE IF inTx
    THEN /\ att' = [att EXCEPT ![a] = [@ EXCEPT !.writes = Append(@, w), !.pc = nextpc]]
         /\ DbUnchanged
  ELSE /\ att' = [att EXCEPT ![a] = [@ EXCEPT !.persisted = @ \cup {w.op}, !.pc = nextpc]]
       /\ TB_CARD_ISSUE' = ApplyHist(TB_CARD_ISSUE, <<w>>, a)
       /\ TB_CARD' = ApplyCard(TB_CARD, <<w>>, a)
       /\ TB_CARD_BATCH_SAV' = ApplySav(TB_CARD_BATCH_SAV, <<w>>)

\* a successful COMMIT makes the writes of the transaction visible at once
CommitOk(a, r) ==
  /\ att' = [att EXCEPT ![a] =
       [r EXCEPT !.persisted = @ \cup Ops(att[a].writes), !.writes = <<>>, !.txFin = "commit"]]
  /\ TB_CARD_ISSUE' = ApplyHist(TB_CARD_ISSUE, att[a].writes, a)
  /\ TB_CARD' = ApplyCard(TB_CARD, att[a].writes, a)
  /\ TB_CARD_BATCH_SAV' = ApplySav(TB_CARD_BATCH_SAV, att[a].writes)

\* a failed COMMIT: sequelize marks the transaction finished ('commit') and
\* kills its connection; nothing of the transaction is kept
CommitFailed(r) == [r EXCEPT !.writes = <<>>, !.txFin = "commit"]

DevErr(perr) ==
  CASE perr = "timeout" -> "dev_timeout"
    [] perr = "conn" -> "dev_conn"
    [] OTHER -> "dev_noresp"

\* the inner try of issueCard / issueBatchCard on a resolved exchange:
\* the empty check, JSON.parse, the result code and the serial
ParseResponse(v, rfid, dflt) ==
  IF v = <<>> THEN [ok |-> FALSE, csn |-> <<>>, err |-> "dev_empty"]
  ELSE LET p == JSONparse(v) IN
       IF ~p.ok THEN [ok |-> FALSE, csn |-> <<>>, err |-> "dev_syntax"]
       ELSE LET res == Prop(p, K_result)
                csn == Prop(p, K_cardCSN) IN
            IF res.def /\ res.t = "str" /\ res.v = Code100
              THEN [ok |-> TRUE,
                    csn |-> IF rfid THEN (IF Truthy(csn) THEN csn.v ELSE dflt) ELSE Placeholder,
                    err |-> ""]
              ELSE [ok |-> FALSE, csn |-> <<>>, err |-> "dev_rejected"]

\* a continuation that goes on to the inserts whatever the device answered
\* (used to test the sensitivity of C21)
AfterExchangeNoCheck(r, rfid, dflt) ==
  IF r.pstate = "rejected" THEN Throw(r, DevErr(r.perr))
  ELSE [r EXCEPT !.resp = r.pval, !.cardCSN = dflt, !.pc = "insert"]

\* the continuation of `await sendToCardServer(...)` in the JSON-parsing paths
AfterExchange(r, rfid, dflt) ==
  IF r.pstate = "rejected" THEN Throw(r, DevErr(r.perr))
  ELSE LET pr == ParseResponse(r.pval, rfid, dflt) IN
       IF pr.ok THEN [r EXCEPT !.resp = r.pval, !.cardCSN = pr.csn, !.pc = "insert"]
       ELSE Throw([r EXCEPT !.resp = r.pval], pr.err)

(***************************************************************************)
(* cardService.issueCard (POST /issue).  The card count of the request is  *)
(* the card_count the employee lookup returned.                            *)
(***************************************************************************)
StartIssueCard(a, e, t, ok, c, lim) ==
  /\ CanStart(a, c, lim)
  /\ LET n == LookupCardCount(e)
         r == [Idle EXCEPT !.kind = "issueCard", !.emp = e, !.cardType = t,
                          !.origCount = n, !.cardCount = IF t = "P" THEN 0 ELSE n,
                          !.maxBefore = MaxCount(TB_CARD_ISSUE, e)]
     IN att' = [att EXCEPT ![a] =
          IF ok THEN [SendToCardServer([r EXCEPT !.txRef = TRUE]) EXCEPT !.pc = "await_dev"]
          ELSE Throw(r, "begin")]
  /\ NoteOverlap(a)
  /\ DbUnchanged
  /\ UNCHANGED drv

\* a parse that keeps the serial of the reply whatever the card type (used to
\* test the sensitivity of C7)
IssueCardParseAnyType(a) ==
  /\ att[a].kind = "issueCard"
  /\ att[a].pc = "await_dev"
  /\ att[a].pstate \in {"resolved", "rejected"}
  /\ att' = [att EXCEPT ![a] = AfterExchange(@, TRUE, <<>>)]
  /\ DbUnchanged
  /\ UNCHANGED <<overlap, drv>>

IssueCardParse(a) ==
  /\ att[a].kind = "issueCard"
  /\ att[a].pc = "await_dev"
  /\ att[a].pstate \in {"resolved", "rejected"}
  /\ att' = [att EXCEPT ![a] = AfterExchange(@, att[a].cardType = "R", <<>>)]
  /\ DbUnchanged
  /\ UNCHANGED <<overlap, drv>>

IssueCardInsert(a, ok) ==
  /\ att[a].kind = "issueCard"
  /\ att[a].pc = "insert"
  /\ Query(a, HistWrite(att[a].emp, att[a].cardCount, att[a].cardCSN, att[a].cardType),
           TRUE, "upsert", ok, "db_insert")
  /\ UNCHANGED <<overlap, drv>>

\* an upsert that stores the count of the request instead of the count of
\* the history row (used to test the sensitivity of C20)
IssueCardUpsertOrigCount(a, ok) ==
  /\ att[a].kind = "issueCard"
  /\ att[a].pc = "upsert"
  /\ Query(a, CardWrite(att[a].emp, att[a].origCount, att[a].cardCSN, att[a].cardType),
           TRUE, "commit", ok, "db_upsert")
  /\ UNCHANGED <<overlap, drv>>

\* the upsert without the transaction option (used to test the sensitivity
\* of C1)
IssueCardUpsertNoTx(a, ok) ==
  /\ att[a].kind = "issueCard"
  /\ att[a].pc = "upsert"
  /\ Query(a, CardWrite(att[a].emp, att[a].cardCount, att[a].cardCSN, att[a].cardType),
           FALSE, "commit", ok, "db_upsert")
  /\ UNCHANGED <<overlap, drv>>

IssueCardUpsert(a, ok) ==
  /\ att[a].kind = "issueCard"
  /\ att[a].pc = "upsert"
  /\ Query(a, CardWrite(att[a].emp, att[a].cardCount, att[a].cardCSN, att[a].cardType),
           TRUE, "commit", ok, "db_upsert")
  /\ UNCHANGED <<overlap, drv>>

\* await transaction.commit(); transaction = null; return {...}
IssueCardCommit(a, ok) ==
  /\ att[a].kind = "issueCard"
  /\ att[a].pc = "commit"
  /\ IF ok
       THEN CommitOk(a, [att[a] EXCEPT !.txRef = FALSE, !.pc = "done", !.result = "ok"])
       ELSE att' = [att EXCEPT ![a] = Throw(CommitFailed(@), "db_commit")] /\ DbUnchanged
  /\ UNCHANGED <<overlap, drv>>

(***************************************************************************)
(* cardService.issueBatchCard (POST /issueBatchCard).                      *)
(***************************************************************************)
\* the join of TB_CARD_BATCH_SAV, TB_MEMBER and TB_CARD for (e, issuer)
GetEmployee(e) ==
  LET s == {x \in TB_CARD_BATCH_SAV : x.m_no = e /\ x.create_id = Issuer} IN
  IF s = {} \/ MemberStatus(e) = "" THEN NoEmployee
  ELSE [found |-> TRUE, card_type |-> (CHOOSE x \in s : TRUE).card_type,
        cardType |-> "", card_count |-> LookupCardCount(e)]

StartIssueBatchCard(a, e, ok, c, lim) ==
  /\ CanStart(a, c, lim)
  /\ LET r == [Idle EXCEPT !.kind = "issueBatchCard", !.emp = e,
                          !.maxBefore = MaxCount(TB_CARD_ISSUE, e)]
     IN att' = [att EXCEPT ![a] =
          IF ok THEN [r EXCEPT !.txRef = TRUE, !.pc = "lookup"] ELSE Throw(r, "begin")]
  /\ NoteOverlap(a)
  /\ DbUnchanged
  /\ UNCHANGED drv

\* the employee query, the not-found check, the frame and the call of
\* sendToCardServer
BatchLookup(a, ok) ==
  /\ att[a].kind = "issueBatchCard"
  /\ att[a].pc = "lookup"
  /\ LET er == GetEmployee(att[a].emp) IN
     att' = [att EXCEPT ![a] =
       IF ~ok THEN Throw(@, "db_lookup")
       ELSE IF ~er.found THEN Throw(@, "not_found")
       ELSE [SendToCardServer([@ EXCEPT !.er = er, !.cardType = er.card_type])
               EXCEPT !.pc = "await_dev"]]
  /\ DbUnchanged
  /\ UNCHANGED <<overlap, drv>>

\* `employeeResult.cardType === 'R'` reads a property the query does not return
BatchParse(a) ==
  /\ att[a].kind = "issueBatchCard"
  /\ att[a].pc = "await_dev"
  /\ att[a].pstate \in {"resolved", "rejected"}
  /\ att' = [att EXCEPT ![a] = AfterExchange(@, att[a].er.cardType = "R", Placeholder)]
  /\ DbUnchanged
  /\ UNCHANGED <<overlap, drv>>

\* a number bound to a CARD_TYPE parameter is stored as its decimal text
SqlText(n) == ToString(n)

\* the replacements of the insert: `employeeResult.card_type = 'R' ? card_count : '0'`
\* parses as card_type = ('R' ? card_count : '0'): it assigns card_count to
\* card_type and yields card_count; the cardType replacement is read afterwards
BatchInsert(a, ok) ==
  /\ att[a].kind = "issueBatchCard"
  /\ att[a].pc = "insert"
  /\ LET er == [att[a].er EXCEPT !.card_type = SqlText(att[a].er.card_count)]
         r == [att[a] EXCEPT !.er = er, !.cardCount = er.card_count]
     IN IF ok
          THEN /\ att' = [att EXCEPT ![a] =
                    [r EXCEPT !.writes = Append(@, HistWrite(r.emp, er.card_count, r.cardCSN,
                                                            er.card_type)),
                              !.pc = "delete"]]
               /\ DbUnchanged
          ELSE att' = [att EXCEPT ![a] = Throw(r, "db_insert")] /\ DbUnchanged
  /\ UNCHANGED <<overlap, drv>>

\* the worklist delete without the transaction option (used to test the
\* sensitivity of C9)
BatchDeleteNoTx(a, ok) ==
  /\ att[a].kind = "issueBatchCard"
  /\ att[a].pc = "delete"
  /\ Query(a, DelWrite(att[a].emp), FALSE, "upsert", ok, "db_delete")
  /\ UNCHANGED <<overlap, drv>>

BatchDelete(a, ok) ==
  /\ att[a].kind = "issueBatchCard"
  /\ att[a].pc = "delete"
  /\ Query(a, DelWrite(att[a].emp), TRUE, "upsert", ok, "db_delete")
  /\ UNCHANGED <<overlap, drv>>

\* the replacements of the upsert: `employeeResult.cardType = 'R' ? card_count : '0'`,
\* the same assignment to the cardType property
BatchUpsert(a, ok) ==
  /\ att[a].kind = "issueBatchCard"
  /\ att[a].pc = "upsert"
  /\ LET er == [att[a].er EXCEPT !.cardType = SqlText(att[a].er.card_count)]
         r == [att[a] EXCEPT !.er = er]
     IN IF ok
          THEN /\ att' = [att EXCEPT ![a] =
                    [r EXCEPT !.writes = Append(@, CardWrite(r.emp, er.card_count, r.cardCSN,
                                                            er.cardType)),
                              !.pc = "commit"]]
               /\ DbUnchanged
          ELSE att' = [att EXCEPT ![a] = Throw(r, "db_upsert")] /\ DbUnchanged
  /\ UNCHANGED <<overlap, drv>>

BatchCommit(a, ok) ==
  /\ att[a].kind = "issueBatchCard"
  /\ att[a].pc = "commit"
  /\ IF ok
       THEN CommitOk(a, [att[a] EXCEPT !.pc = "done", !.result = "ok"])
       ELSE att' = [att EXCEPT ![a] = Throw(CommitFailed(@), "db_commit")] /\ DbUnchanged
  /\ UNCHANGED <<overlap, drv>>

(***************************************************************************)
(* The earlier cardService (part_006): issueCard, issueCardWithBatchMode   *)
(* and the issueBatchCards driver.  The reply is checked by substring.     *)
(***************************************************************************)
DigitChars == <<"0", "1", "2", "3", "4", "5", "6", "7", "8", "9">>

\* cardCount.toString().padStart(3, '0')
PadStart3(n) ==
  IF n >= 1000 THEN <<"big">>
  ELSE <<DigitChars[((n \div 100) % 10) + 1], DigitChars[((n \div 10) % 10) + 1],
         DigitChars[(n % 10) + 1]>>

\* `${cardPrefix}-${timestamp}-${countStr}`; the six timestamp digits are "ts"
generateCardNumber(cardType, cardCount) ==
  <<CASE cardType = "E" -> "NFMC-EMP"
      [] cardType = "V" -> "NFMC-VIS"
      [] cardType = "T" -> "NFMC-TMP"
      [] cardType = "C" -> "NFMC-CON"
      [] OTHER -> "NFMC-UNK", "-", "ts", "-">> \o PadStart3(cardCount)

\* !socketResponse || (!socketResponse.includes('100') && !socketResponse.includes('OK'))
SubstringFailure(v) == v = <<>> \/ (~Includes(v, Code100) /\ ~Includes(v, TextOK))

\* the catch of part_006: `await transaction.rollback()` without a guard; on a
\* finished transaction rollback() throws and that error leaves the function
ThrowLegacy(r, e) ==
  IF r.txFin = ""
    THEN [r EXCEPT !.pc = "l_rollback", !.err = e]
    ELSE [r EXCEPT !.pc = "done", !.result = "error", !.err = "rollback_finished"]

\* a rollback that also undoes what earlier attempts committed, as if the
\* items of a run shared one unit of work (used to test the sensitivity of C11)
LegacyRollbackWholeRun(a, ok) ==
  /\ att[a].pc = "l_rollback"
  /\ att' = [att EXCEPT ![a] =
       [@ EXCEPT !.pc = "done", !.result = "error", !.txFin = "rollback", !.writes = <<>>,
                 !.err = IF ok THEN @ ELSE "rollback_failed", !.rbFailed = ~ok]]
  /\ TB_CARD_ISSUE' = <<>>
  /\ UNCHANGED <<TB_CARD, TB_CARD_BATCH_SAV, overlap, drv>>

LegacyRollback(a, ok) ==
  /\ att[a].pc = "l_rollback"
  /\ att' = [att EXCEPT ![a] =
       [@ EXCEPT !.pc = "done", !.result = "error", !.txFin = "rollback", !.writes = <<>>,
                 !.err = IF ok THEN @ ELSE "rollback_failed", !.rbFailed = ~ok]]
  /\ DbUnchanged
  /\ UNCHANGED <<overlap, drv>>

\* nextCardCount is known: the serial, the frame and the call of sendToCardServer
LegacySend(r, n) ==
  [SendToCardServer([r EXCEPT !.cardCount = n,
                              !.cardSno = generateCardNumber(r.cardType, n)])
     EXCEPT !.pc = "await_dev"]

\* issueCard of part_006; given says whether the request carries a cardCount
StartLegacyIssueCard(a, e, t, given, ok, c, lim) ==
  /\ CanStart(a, c, lim)
  /\ LET n == IF given THEN LookupCardCount(e) ELSE 0
         r == [Idle EXCEPT !.kind = "legacyIssueCard", !.emp = e, !.cardType = t,
                          !.given = given, !.origCount = n,
                          !.maxBefore = MaxCount(TB_CARD_ISSUE, e)]
     IN att' = [att EXCEPT ![a] =
          IF ~ok THEN [r EXCEPT !.pc = "done", !.result = "error", !.err = "begin"]
          ELSE IF n = 0 THEN [r EXCEPT !.txRef = TRUE, !.pc = "l_max"]
          ELSE LegacySend([r EXCEPT !.txRef = TRUE], n)]
  /\ NoteOverlap(a)
  /\ DbUnchanged
  /\ UNCHANGED drv

\* SELECT IFNULL(MAX(CARD_COUNT), 0) ...; nextCardCount = max_count + 1
LegacyMaxCount(a, ok) ==
  /\ att[a].kind \in {"legacyIssueCard", "batchMode"}
  /\ att[a].pc = "l_max"
  /\ att' = [att EXCEPT ![a] =
       IF ok THEN LegacySend(@, MaxCount(TB_CARD_ISSUE, att[a].emp) + 1)
       ELSE ThrowLegacy(@, "db_max")]
  /\ DbUnchanged
  /\ UNCHANGED <<overlap, drv>>

LegacyParse(a) ==
  /\ att[a].kind \in {"legacyIssueCard", "batchMode"}
  /\ att[a].pc = "await_dev"
  /\ att[a].pstate \in {"resolved", "rejected"}
  /\ att' = [att EXCEPT ![a] =
       IF att[a].pstate = "rejected" THEN ThrowLegacy(@, DevErr(att[a].perr))
       ELSE IF SubstringFailure(att[a].pval)
         THEN ThrowLegacy([@ EXCEPT !.resp = att[a].pval], "dev_rejected")
       ELSE [@ EXCEPT !.resp = att[a].pval, !.pc = "insert"]]
  /\ DbUnchanged
  /\ UNCHANGED <<overlap, drv>>

\* issueCard inserts the cardCount of the request; without one the named
\* parameter has no value and the query throws
LegacyInsert(a, ok) ==
  /\ att[a].kind = "legacyIssueCard"
  /\ att[a].pc = "insert"
  /\ att' = [att EXCEPT ![a] =
       IF ok /\ att[a].given
         THEN [@ EXCEPT !.writes = Append(@, HistWrite(att[a].emp, att[a].origCount,
                                                      att[a].cardSno, att[a].cardType)),
                        !.pc = "commit"]
         ELSE ThrowLegacy(@, "db_insert")]
  /\ DbUnchanged
  /\ UNCHANGED <<overlap, drv>>

\* after the commit the return statement reads the undeclared userData: the
\* ReferenceError enters the catch, whose rollback() throws on the finished
\* transaction
LegacyCommit(a, ok) ==
  /\ att[a].kind = "legacyIssueCard"
  /\ att[a].pc = "commit"
  /\ IF ok
       THEN CommitOk(a, ThrowLegacy([att[a] EXCEPT !.txFin = "commit"], "reference"))
       ELSE att' = [att EXCEPT ![a] = ThrowLegacy(CommitFailed(@), "db_commit")] /\ DbUnchanged
  /\ UNCHANGED <<overlap, drv>>

(***************************************************************************)
(* issueCardWithBatchMode (part_006, lines 236-354), run by the driver.    *)
(***************************************************************************)
\* what follows the user data: the count query in the first revision; in the
\* second the frame is built from the undeclared cardSno, a ReferenceError
AfterUserData(r, rev) ==
  IF rev = "first" THEN [r EXCEPT !.pc = "l_max"] ELSE ThrowLegacy(r, "reference")

\* the TB_MEMBER check made when name, department or position is missing
BatchModeLookup(a, ok, rbok) ==
  /\ att[a].kind = "batchMode"
  /\ att[a].pc = "bm_lookup"
  /\ att' = [att EXCEPT ![a] =
       IF ~ok THEN ThrowLegacy(@, "db_lookup")
       ELSE IF MemberStatus(att[a].emp) # "W"
         THEN ThrowLegacy([@ EXCEPT !.txFin = "rollback", !.rbFailed = ~rbok], "not_found")
       ELSE AfterUserData(@, drv.rev)]
  /\ DbUnchanged
  /\ UNCHANGED <<overlap, drv>>

BatchModeInsert(a, ok) ==
  /\ att[a].kind = "batchMode"
  /\ att[a].pc = "insert"
  /\ att' = [att EXCEPT ![a] =
       IF ok
         THEN [@ EXCEPT !.writes = Append(@, HistWrite(att[a].emp, att[a].cardCount,
                                                      att[a].cardSno, att[a].cardType)),
                        !.pc = "commit"]
         ELSE ThrowLegacy(@, "db_insert")]
  /\ DbUnchanged
  /\ UNCHANGED <<overlap, drv>>

BatchModeCommit(a, ok) ==
  /\ att[a].kind = "batchMode"
  /\ att[a].pc = "commit"
  /\ IF ok
       THEN CommitOk(a, [att[a] EXCEPT !.pc = "done", !.result = "ok"])
       ELSE att' = [att EXCEPT ![a] = ThrowLegacy(CommitFailed(@), "db_commit")] /\ DbUnchanged
  /\ UNCHANGED <<overlap, drv>>

(***************************************************************************)
(* issueBatchCards: the loop over cardsData.                               *)
(***************************************************************************)
NoRun == [pc |-> "idle", rev |-> "", items |-> <<>>, i |-> 0, cur |-> 0, results |-> <<>>]

\* a cardsData item: the employee, and whether name, department and position
\* are all supplied
Items == [employeeId : Employees, named : BOOLEAN]

RECURSIVE Lists(_, _)
Lists(S, n) ==
  IF n = 0 THEN {<<>>}
  ELSE LET shorter == Lists(S, n - 1) IN
       shorter \cup {Append(l, x) : l \in {y \in shorter : Len(y) = n - 1}, x \in S}

\* rev is the revision of part_006 that runs: "first" (lines 202-354) or
\* "second" (lines 760-896)
StartBatchCards(cardsData, rev) ==
  /\ drv.pc = "idle"
  /\ \A a \in Attempts : att[a].pc = "idle"
  /\ drv' = [NoRun EXCEPT !.pc = IF cardsData = <<>> THEN "returned" ELSE "loop",
                          !.rev = rev, !.items = cardsData, !.i = 1]
  /\ DbUnchanged
  /\ UNCHANGED <<att, overlap>>

\* the loop body up to `await issueCardWithBatchMode(cardData, seq, total)`,
\* and that call up to its first query
DriverCall(a, ok) ==
  /\ drv.pc = "loop"
  /\ drv.cur = 0
  /\ CanStart(a, 1, MaxAttempts)
  /\ LET item == drv.items[drv.i]
         r == [Idle EXCEPT !.kind = "batchMode", !.emp = item.employeeId, !.cardType = "E",
                          !.given = item.named,
                          !.maxBefore = MaxCount(TB_CARD_ISSUE, item.employeeId)]
     IN att' = [att EXCEPT ![a] =
          IF ~ok THEN [r EXCEPT !.pc = "done", !.result = "error", !.err = "begin"]
          ELSE IF item.named THEN AfterUserData([r EXCEPT !.txRef = TRUE], drv.rev)
          ELSE [r EXCEPT !.txRef = TRUE, !.pc = "bm_lookup"]]
  /\ drv' = [drv EXCEPT !.cur = a]
  /\ NoteOverlap(a)
  /\ DbUnchanged

\* a loop that gives up at the first item that fails (used to test the
\* sensitivity of C10)
DriverCollectAbort(a) ==
  /\ drv.pc = "loop"
  /\ drv.cur = a
  /\ att[a].pc = "done"
  /\ att[a].sock \in {"none", "closed"}
  /\ drv' = [drv EXCEPT
       !.results = IF att[a].result = "ok"
                     THEN Append(@, [seq |-> drv.i,
                                     employeeId |-> drv.items[drv.i].employeeId,
                                     success |-> TRUE])
                     ELSE @,
       !.cur = 0,
       !.i = @ + 1,
       !.pc = IF att[a].result # "ok" \/ drv.i + 1 > Len(drv.items) THEN "returned" ELSE "loop"]
  /\ att' = [att EXCEPT ![a] = [Idle EXCEPT !.pc = "fin"]]
  /\ DbUnchanged
  /\ UNCHANGED overlap

\* results.push({seq, employeeId, success, ...}) in the try or in the catch,
\* and the loop test
DriverCollect(a) ==
  /\ drv.pc = "loop"
  /\ drv.cur = a
  /\ att[a].pc = "done"
  /\ att[a].sock \in {"none", "closed"}
  /\ drv' = [drv EXCEPT
       !.results = Append(@, [seq |-> drv.i, employeeId |-> drv.items[drv.i].employeeId,
                              success |-> att[a].result = "ok"]),
       !.cur = 0,
       !.i = @ + 1,
       !.pc = IF drv.i + 1 > Len(drv.items) THEN "returned" ELSE "loop"]
  /\ att' = [att EXCEPT ![a] = [Idle EXCEPT !.pc = "fin"]]
  /\ DbUnchanged
  /\ UNCHANGED overlap

(***************************************************************************)
(* buildCardIssueMessage: the frame sent to the card device.               *)
(***************************************************************************)
RECURSIVE Decimal(_)
Decimal(n) ==
  IF n < 10 THEN <<DigitChars[n + 1]>>
  ELSE Decimal(n \div 10) \o <<DigitChars[(n % 10) + 1]>>

\* String(v), as Array.prototype.join converts an element
ToText(v) == IF v.t = "num" THEN Decimal(v.n) ELSE v.s

\* v || ''
OrEmpty(v) ==
  IF v.t = "undef" \/ (v.t = "num" /\ v.n = 0) \/ (v.t = "str" /\ v.s = <<>>)
    THEN JsStr(<<>>)
    ELSE v

RECURSIVE Join(_, _)
Join(parts, sep) ==
  IF parts = <<>> THEN <<>>
  ELSE IF Len(parts) = 1 THEN parts[1]
  ELSE parts[1] \o <<sep>> \o Join(Tail(parts), sep)

\* getCurrentDate(): the eight digits of today's date, written as one token
getCurrentDate == <<"yyyymmdd">>

buildCardIssueMessage(cardData) ==
  Join(<<<<"0">>,
         ToText(OrEmpty(cardData.no)),
         ToText(OrEmpty(cardData.name)),
         ToText(OrEmpty(cardData.department)),
         ToText(OrEmpty(cardData.position)),
         ToText(OrEmpty(cardData.cardCount)),
         ToText(OrEmpty(cardData.cardType)),
         ToText(OrEmpty(cardData.photo_blob)),
         getCurrentDate>>, "|")

\* the arguments tried: fields present or absent, the count as issueCard
\* passes it (a number, 0 for PVC) and as issueBatchCard passes it
CardDataInputs ==
  [no : {JsStr(<<"E1">>), JsStr(<<"E2">>)},
   name : {JsUndef, JsStr(<<"K", "i", "m">>)},
   department : {JsUndef, JsStr(<<"D", "1">>)},
   position : {JsUndef, JsStr(<<"P", "1">>)},
   cardCount : {JsUndef, JsNum(0), JsNum(1), JsNum(12), JsStr(<<"0">>)},
   cardType : {JsUndef, JsStr(<<"R">>), JsStr(<<"P">>)},
   photo_blob : {JsUndef, JsStr(<<"base64">>)}]

\* one call of buildCardIssueMessage
BuildFrame(a, cardData) ==
  /\ CanStart(a, 1, 1)
  /\ att' = [att EXCEPT ![a] =
       [Idle EXCEPT !.kind = "frame", !.pc = "built", !.cardData = cardData,
                    !.frame = buildCardIssueMessage(cardData)]]
  /\ DbUnchanged
  /\ UNCHANGED <<overlap, drv>>

(***************************************************************************)
(* cardController: the response to the HTTP request.  What the finished    *)
(* call leaves behind is garbage once the request is over.                 *)
(***************************************************************************)
\* a response that is written although the headers were sent already (used
\* to test the sensitivity of C30)
RespondHeadersUnchecked(a, isTimeout) ==
  /\ att[a].pc = "done"
  /\ att[a].kind \in {"issueCard", "issueBatchCard", "legacyIssueCard"}
  /\ att[a].sock \in {"none", "closed"}
  /\ att' = [att EXCEPT ![a] =
       IF att[a].result = "ok"
         THEN [@ EXCEPT !.pc = "responded", !.status = 200, !.success = TRUE,
                        !.headersSent = TRUE, !.responses = @ + 1]
         ELSE [@ EXCEPT !.pc = "responded", !.status = IF isTimeout THEN 408 ELSE 500,
                        !.success = FALSE, !.headersSent = TRUE, !.responses = @ + 1]]
  /\ DbUnchanged
  /\ UNCHANGED <<overlap, drv>>

\* res.json({success: true, ...}) after the service call, or the catch:
\* res.status(isTimeout ? 408 : 500).json({success: false, ...}), where
\* isTimeout depends on the error text and on the elapsed time.  The close
\* event of the socket and the response commute; the response is taken last.
Respond(a, isTimeout) ==
  /\ att[a].pc = "done"
  /\ att[a].kind \in {"issueCard", "issueBatchCard", "legacyIssueCard"}
  /\ att[a].sock \in {"none", "closed"}
  /\ att' = [att EXCEPT ![a] =
       IF att[a].headersSent
         \* res.json throws ERR_HTTP_HEADERS_SENT, in the try and in the catch:
         \* nothing is written and the handler's promise is rejected
         THEN [@ EXCEPT !.pc = "responded", !.unhandled = TRUE]
       ELSE IF att[a].result = "ok"
         THEN [@ EXCEPT !.pc = "responded", !.status = 200, !.success = TRUE,
                        !.headersSent = TRUE, !.responses = @ + 1]
         ELSE [@ EXCEPT !.pc = "responded", !.status = IF isTimeout THEN 408 ELSE 500,
                        !.success = FALSE, !.headersSent = TRUE, !.responses = @ + 1]]
  /\ DbUnchanged
  /\ UNCHANGED <<overlap, drv>>

\* a route timeout that also gives up the exchange with the device (used to
\* test the sensitivity of C25)
RouteTimeoutAborts(a) ==
  /\ Running(a)
  /\ att[a].kind \in {"issueCard", "issueBatchCard"}
  /\ ~att[a].routeFired
  /\ ~att[a].clientGone
  /\ att' = [att EXCEPT ![a] =
       [(IF att[a].sock \in {"connecting", "open"}
           THEN [Reject(ClearTimeout(@), "conn") EXCEPT !.sock = "destroyed"]
           ELSE @)
          EXCEPT !.routeFired = TRUE,
                 !.status = IF att[a].headersSent THEN @ ELSE 408,
                 !.responses = IF att[a].headersSent THEN @ ELSE @ + 1,
                 !.headersSent = TRUE]]
  /\ DbUnchanged
  /\ UNCHANGED <<overlap, drv>>

\* cardIssueTimeout: the callback of req.setTimeout(90000, ...), which runs
\* when the connection of the request has been idle for 90 seconds; it answers
\* 408 unless the headers were sent.  It fires while the connection exists.
RouteTimeout(a) ==
  /\ Running(a)
  /\ att[a].kind \in {"issueCard", "issueBatchCard"}
  /\ ~att[a].routeFired
  /\ ~att[a].clientGone
  /\ att' = [att EXCEPT ![a] =
       IF att[a].headersSent
         THEN [@ EXCEPT !.routeFired = TRUE]
         ELSE [@ EXCEPT !.routeFired = TRUE, !.status = 408, !.success = FALSE,
                        !.headersSent = TRUE, !.responses = @ + 1]]
  /\ DbUnchanged
  /\ UNCHANGED <<overlap, drv>>

\* the HTTP client closes its connection while the request is in flight; the
\* controller and the route register no listener for it
ClientDisconnect(a) ==
  /\ Running(a)
  /\ att[a].kind \in {"issueCard", "issueBatchCard"}
  /\ ~att[a].clientGone
  /\ att' = [att EXCEPT ![a] = [@ EXCEPT !.clientGone = TRUE]]
  /\ DbUnchanged
  /\ UNCHANGED <<overlap, drv>>

\* the request is over
EndRequest(a) ==
  /\ att[a].pc = "responded"
  /\ att' = [att EXCEPT ![a] = [Idle EXCEPT !.pc = "fin"]]
  /\ DbUnchanged
  /\ UNCHANGED <<overlap, drv>>

(***************************************************************************)
(* The system.                                                             *)
(***************************************************************************)
InitialWorklist ==
  {[m_no |-> "E1", create_id |-> Issuer, card_type |-> "R"],
   [m_no |-> "E2", create_id |-> Issuer, card_type |-> "P"],
   [m_no |-> "E3", create_id |-> Issuer, card_type |-> "R"]}

Init ==
  /\ att = [a \in Attempts |-> Idle]
  /\ TB_CARD_ISSUE = <<>>
  /\ TB_CARD = [e \in Employees |-> NoCard]
  /\ TB_CARD_BATCH_SAV = InitialWorklist
  /\ overlap = {}
  /\ drv = NoRun

\* a reply arrives in one chunk or in two halves
ChunkSizes(r) == {Len(r.wire)} \cup (IF r.rcvd = <<>> THEN {Len(r.wire) \div 2} ELSE {})

\* the socket events of the exchanges in flight; R is the set of replies the
\* device chooses from
Transport(R) ==
  \E a \in Attempts :
    \/ \E reply \in R : OnConnect(a, reply)
    \/ \E k \in ChunkSizes(att[a]) : OnData(a, k)
    \/ OnEnd(a)
    \/ OnError(a)
    \/ OnClose(a)
    \/ OnTimeout(a)

\* n calls of the current cardService with at most c of them in flight, for
\* the employees E
Service(c, E, n) ==
  \/ \E a \in Attempts, ok \in BOOLEAN :
       \/ \E e \in E, t \in CardTypes : StartIssueCard(a, e, t, ok, c, n)
       \/ IssueCardInsert(a, ok)
       \/ IssueCardUpsert(a, ok)
       \/ IssueCardCommit(a, ok)
       \/ \E e \in E : StartIssueBatchCard(a, e, ok, c, n)
       \/ BatchLookup(a, ok)
       \/ BatchInsert(a, ok)
       \/ BatchDelete(a, ok)
       \/ BatchUpsert(a, ok)
       \/ BatchCommit(a, ok)
       \/ Rollback(a, ok)
  \/ \E a \in Attempts :
       \/ IssueCardParse(a)
       \/ BatchParse(a)
       \/ \E isTimeout \in BOOLEAN : Respond(a, isTimeout)
       \/ EndRequest(a)

\* the calls of issueCard of part_006
Legacy(c, E, n) ==
  \/ \E a \in Attempts, ok \in BOOLEAN :
       \/ \E e \in E, t \in CardTypes, given \in BOOLEAN :
            StartLegacyIssueCard(a, e, t, given, ok, c, n)
       \/ LegacyMaxCount(a, ok)
       \/ LegacyInsert(a, ok)
       \/ LegacyCommit(a, ok)
       \/ LegacyRollback(a, ok)
  \/ \E a \in Attempts : LegacyParse(a)

\* one request at a time
Next == Transport(Replies) \/ Service(1, Employees, MaxSeqAttempts)

Spec == Init /\ [][Next]_vars

\* requests for one employee served concurrently
NextConc == Transport({ReplyOkCsn, Reply200}) \/ Service(MaxConcurrent, {"E1"}, MaxConcAttempts)

SpecConc == Init /\ [][NextConc]_vars

\* one employee served repeatedly, one request at a time
NextRepeat == Transport({ReplyOkCsn, Reply200}) \/ Service(1, {"E1"}, MaxAttempts)

SpecRepeat == Init /\ [][NextRepeat]_vars

\* the earlier issueCard, one request at a time
NextLegacy ==
  \/ Transport(Replies)
  \/ Legacy(1, Employees, MaxSeqAttempts)
  \/ \E a \in Attempts, isTimeout \in BOOLEAN : Respond(a, isTimeout)
  \/ \E a \in Attempts : EndRequest(a)

SpecLegacy == Init /\ [][NextLegacy]_vars

\* one request after the other for one employee, with the 90-second route
\* timeout and the disconnect of the HTTP client
NextHttp ==
  \/ Transport({ReplyOkCsn, Reply200})
  \/ Service(1, {"E1"}, MaxHttpRequests)
  \/ \E a \in Attempts : RouteTimeout(a)
  \/ \E a \in Attempts : ClientDisconnect(a)

SpecHttp == Init /\ [][NextHttp]_vars

\* calls of buildCardIssueMessage on their own
NextFrame == \E a \in Attempts, cardData \in CardDataInputs : BuildFrame(a, cardData)

SpecFrame == Init /\ [][NextFrame]_vars

\* one run of issueBatchCards over a list of at most MaxBatchLen items
NextBatchRun ==
  \/ Transport(Replies)
  \/ \E cardsData \in Lists(Items, MaxBatchLen), rev \in {"first", "second"} :
       StartBatchCards(cardsData, rev)
  \/ \E a \in Attempts, ok \in BOOLEAN :
       \/ DriverCall(a, ok)
       \/ \E rbok \in BOOLEAN : BatchModeLookup(a, ok, rbok)
       \/ LegacyMaxCount(a, ok)
       \/ BatchModeInsert(a, ok)
       \/ BatchModeCommit(a, ok)
       \/ LegacyRollback(a, ok)
  \/ \E a \in Attempts :
       \/ LegacyParse(a)
       \/ DriverCollect(a)

SpecBatchRun == Init /\ [][NextBatchRun]_vars

(***************************************************************************)
(* What the claims speak about.                                            *)
(***************************************************************************)
\* the history rows written by attempt a
HistOf(a) == {i \in 1..Len(TB_CARD_ISSUE) : TB_CARD_ISSUE[i].att = a}

\* the employees whose current-card row was written by attempt a
CardOf(a) == {e \in Employees : TB_CARD[e].present /\ TB_CARD[e].att = a}

InWorklist(e) == \E x \in TB_CARD_BATCH_SAV : x.m_no = e /\ x.create_id = Issuer

Current(a) == att[a].kind \in {"issueCard", "issueBatchCard"}

\* the service call of attempt a has returned or thrown
Ended(a) == att[a].pc \in {"done", "responded"}

\* the reply parses as an object whose result is not the string "100"
HasOtherCode(v) ==
  LET p == JSONparse(v) IN
  /\ p.ok
  /\ p.t = "obj"
  /\ Prop(p, K_result).def
  /\ Prop(p, K_result).v # Code100

\* C1: an attempt of cardService.issueCard or issueBatchCard shows none of its
\* writes before it ends; when it ends it has either committed exactly one
\* history row and the current-card row (and, in batch mode, removed the
\* worklist entry), or it has failed and no row of it is persisted.
C1_AllOrNothing ==
  \A a \in Attempts : Current(a) =>
    /\ ~Ended(a) => HistOf(a) = {} /\ CardOf(a) = {} /\ att[a].persisted = {}
    /\ Ended(a) =>
         IF att[a].result = "ok"
           THEN /\ Cardinality(HistOf(a)) = 1
                /\ CardOf(a) = {att[a].emp}
                /\ att[a].kind = "issueBatchCard" =>
                     ~InWorklist(att[a].emp) /\ att[a].persisted = {"hist", "del", "card"}
                /\ att[a].kind = "issueCard" => att[a].persisted = {"hist", "card"}
           ELSE HistOf(a) = {} /\ CardOf(a) = {} /\ att[a].persisted = {}

\* a batch attempt whose upsert failed after the insert and the delete succeeded
C1_Witness ==
  \E a \in Attempts :
    /\ att[a].kind = "issueBatchCard"
    /\ att[a].pc = "done"
    /\ att[a].err = "db_upsert"
    /\ att[a].txFin = "rollback"

\* C2: an attempt whose device reply carries a result code other than "100"
\* ends with an error and persists no row.
C2_OtherCodePersistsNothing ==
  \A a \in Attempts :
    att[a].pc = "done" /\ HasOtherCode(att[a].resp) =>
      att[a].result = "error" /\ att[a].persisted = {} /\ HistOf(a) = {}

\* C3: while sendToCardServer is unsettled and its connection has not ended,
\* its timer is armed, in every phase of the exchange; once the timer has
\* fired the socket is destroyed, the call has failed with the timeout error
\* and the attempt persists nothing and ends with that error.
C3_TimeoutFailsAttempt ==
  \A a \in Attempts :
    /\ att[a].pstate = "pending" /\ att[a].sock \in {"connecting", "open"} =>
         att[a].timer = "armed"
    /\ att[a].timer = "fired" =>
         /\ att[a].sock \in {"destroyed", "closed"}
         /\ att[a].pstate = "rejected"
         /\ att[a].perr = "timeout"
         /\ att[a].persisted = {}
         /\ HistOf(a) = {}
         /\ CardOf(a) = {}
         /\ att[a].pc = "done" => att[a].result = "error" /\ att[a].err = "dev_timeout"

\* the timer fired after response bytes had arrived, and the attempt has ended
C3_Witness ==
  \E a \in Attempts :
    /\ att[a].timer = "fired"
    /\ att[a].responseData # <<>>
    /\ att[a].pc = "done"

\* C4: a committed RFID issuance records 1 + the largest CARD_COUNT the
\* employee's history held before the attempt.
C4_CountIsMaxPlusOne ==
  \A a \in Attempts :
    Current(a) /\ att[a].pc = "done" /\ att[a].result = "ok" /\ att[a].cardType = "R" =>
      \A i \in HistOf(a) : TB_CARD_ISSUE[i].count = att[a].maxBefore + 1

\* C5: the RFID history rows of an employee carry strictly increasing counts
\* in commit order.
C5_RfidCountsIncrease ==
  \A i, j \in 1..Len(TB_CARD_ISSUE) :
    /\ i < j
    /\ TB_CARD_ISSUE[i].m_no = TB_CARD_ISSUE[j].m_no
    /\ TB_CARD_ISSUE[i].type = "R"
    /\ TB_CARD_ISSUE[j].type = "R"
    => TB_CARD_ISSUE[i].count < TB_CARD_ISSUE[j].count

\* C6: two attempts for one employee that were in flight together never both
\* commit an RFID history row with the same count.
C6_NoSharedCount ==
  \A i, j \in 1..Len(TB_CARD_ISSUE) :
    /\ i < j
    /\ TB_CARD_ISSUE[i].m_no = TB_CARD_ISSUE[j].m_no
    /\ TB_CARD_ISSUE[i].type = "R"
    /\ TB_CARD_ISSUE[j].type = "R"
    /\ <<TB_CARD_ISSUE[i].att, TB_CARD_ISSUE[j].att>> \in overlap
    => TB_CARD_ISSUE[i].count # TB_CARD_ISSUE[j].count

\* C7: when issueCard commits on the reply {"result":"100","cardCSN":"ABC123"}
\* its history row and the current-card row carry ABC123 for an RFID request
\* and "-" for a PVC request.
C7_SerialByCardType ==
  \A a \in Attempts :
    /\ att[a].kind = "issueCard"
    /\ att[a].pc = "done"
    /\ att[a].result = "ok"
    /\ att[a].resp = ReplyOkCsn
    => LET s == IF att[a].cardType = "R" THEN CSN1 ELSE Placeholder IN
       /\ HistOf(a) # {}
       /\ \A i \in HistOf(a) : TB_CARD_ISSUE[i].sno = s
       /\ TB_CARD[att[a].emp].att = a
       /\ TB_CARD[att[a].emp].sno = s

\* a PVC issuance committed on that reply, after an RFID one had stored ABC123
C7_Witness ==
  \E a \in Attempts :
    /\ att[a].kind = "issueCard"
    /\ att[a].pc = "done"
    /\ att[a].result = "ok"
    /\ att[a].resp = ReplyOkCsn
    /\ att[a].cardType = "P"
    /\ \E i \in 1..Len(TB_CARD_ISSUE) : TB_CARD_ISSUE[i].sno = CSN1

\* C8: an attempt for an employee without a TB_MEMBER row of status 'W' opens
\* no connection, sends no frame, persists nothing and ends with an error.
C8_UnknownEmployeeRejected ==
  \A a \in Attempts :
    Current(a) /\ MemberStatus(att[a].emp) # "W" =>
      /\ att[a].conns = 0
      /\ att[a].frames = 0
      /\ att[a].persisted = {}
      /\ att[a].pc = "done" => att[a].result = "error"

\* C9: the worklist entry that issueBatchCard found is present until the
\* attempt ends; it is gone when the attempt has committed and still present
\* when the attempt has failed, whatever the step that failed.
C9_EntryDeletedIffCommitted ==
  \A a \in Attempts :
    att[a].kind = "issueBatchCard" =>
      /\ Ended(a) /\ att[a].result = "ok" => ~InWorklist(att[a].emp)
      /\ ~(Ended(a) /\ att[a].result = "ok") =>
           /\ "del" \notin att[a].persisted
           /\ att[a].er.found => InWorklist(att[a].emp)

\* a batch attempt whose commit failed after the delete had been issued
C9_Witness ==
  \E a \in Attempts :
    /\ att[a].kind = "issueBatchCard"
    /\ att[a].pc = "done"
    /\ att[a].err = "db_commit"
    /\ InWorklist(att[a].emp)

C11_ItemsIsolated ==
  [][/\ Len(TB_CARD_ISSUE') >= Len(TB_CARD_ISSUE)
     /\ \A i \in 1..Len(TB_CARD_ISSUE) : TB_CARD_ISSUE'[i] = TB_CARD_ISSUE[i]
     /\ drv'.pc = "returned" =>
          \A i \in 1..Len(drv'.items) : att'[i].kind = "" /\ att'[i].pc = "fin"]_vars

\* a run over two items returned with the first committed and the second
\* failed, the row of the first still in the history
C11_Witness ==
  /\ drv.pc = "returned"
  /\ Len(drv.items) = 2
  /\ drv.results[1].success
  /\ ~drv.results[2].success
  /\ HistOf(1) # {}

\* C12: at most one attempt at a time has a socket to the card device, opening
\* or open.
C12_OneExchangeAtATime ==
  Cardinality({a \in Attempts : att[a].sock \in {"connecting", "open"}}) <= 1

\* C13: a committed issuance of a PVC card, requested through issueCard or
\* through a worklist entry of type 'P', records count 0 in its history row
\* and in the current-card row.
C13_PvcCountZero ==
  \A a \in Attempts :
    Current(a) /\ att[a].pc = "done" /\ att[a].result = "ok" /\ att[a].cardType = "P" =>
      /\ \A i \in HistOf(a) : TB_CARD_ISSUE[i].count = 0
      /\ TB_CARD[att[a].emp].count = 0

\* C14: sendToCardServer never completes successfully with an empty response.
C14_EmptyResponseRejected ==
  \A a \in Attempts : ~(att[a].pstate = "resolved" /\ att[a].pval = <<>>)

\* C15: when sendToCardServer resolves at the end of the connection, its text
\* is the MS949 decoding of all bytes received, taken together.
C15_ReturnsDecodedStream ==
  \A a \in Attempts :
    att[a].pstate = "resolved" /\ att[a].sock = "ended" =>
      att[a].pval = MS949Decode(att[a].rcvd)

\* C16: an attempt whose insert, upsert, worklist delete or commit failed
\* after the device reported "100" ends with an error, and the controller
\* answers success=false with status 408 or 500, also when the rollback failed.
C16_PersistenceFailureSurfaced ==
  \A a \in Attempts :
    Current(a) /\ att[a].err \in {"db_insert", "db_upsert", "db_delete", "db_commit"} =>
      /\ att[a].pc \in {"rollback", "done", "responded"}
      /\ Ended(a) => att[a].result = "error" /\ att[a].persisted = {}
      /\ att[a].pc = "responded" => ~att[a].success /\ att[a].status \in {408, 500}

\* the controller has answered an attempt whose upsert failed and whose
\* rollback failed too
C16_Witness ==
  \E a \in Attempts :
    /\ Current(a)
    /\ att[a].pc = "responded"
    /\ att[a].err = "db_upsert"
    /\ att[a].rbFailed
    /\ JSONparse(att[a].resp).ok

\* frame.split(sep)
RECURSIVE Split(_, _)
Split(s, sep) ==
  LET idx == {i \in 1..Len(s) : s[i] = sep} IN
  IF idx = {} THEN <<s>>
  ELSE LET i == CHOOSE x \in idx : \A y \in idx : x <= y IN
       <<SubSeq(s, 1, i - 1)>> \o Split(SubSeq(s, i + 1, Len(s)), sep)

\* the text of a supplied field; an absent field is the empty text
Supplied(v) == IF v.t = "undef" THEN <<>> ELSE ToText(v)

\* C17: a frame built by buildCardIssueMessage splits on '|' into 9 fields,
\* and fields 2 to 7 are the supplied employeeId, name, department, position,
\* cardCount and cardType.
C17_FrameRoundTrip ==
  \A a \in Attempts :
    att[a].pc = "built" =>
      LET f == Split(att[a].frame, "|")
          cd == att[a].cardData IN
      /\ Len(f) = 9
      /\ f[2] = Supplied(cd.no)
      /\ f[3] = Supplied(cd.name)
      /\ f[4] = Supplied(cd.department)
      /\ f[5] = Supplied(cd.position)
      /\ f[6] = Supplied(cd.cardCount)
      /\ f[7] = Supplied(cd.cardType)

\* C18: an issueBatchCard attempt for a worklist entry of type 'R' that
\* commits on the reply {"result":"100","cardCSN":"ABC123"} stores ABC123 as
\* the serial of its history row and of the current-card row.
C18_BatchRfidSerial ==
  \A a \in Attempts :
    /\ att[a].kind = "issueBatchCard"
    /\ Ended(a)
    /\ att[a].result = "ok"
    /\ att[a].cardType = "R"
    /\ att[a].resp = ReplyOkCsn
    => /\ \A i \in HistOf(a) : TB_CARD_ISSUE[i].sno = CSN1
       /\ TB_CARD[att[a].emp].sno = CSN1

\* C19: a committed issueBatchCard attempt stores the card type of its
\* worklist entry in the history row and in the current-card row.
C19_BatchCardType ==
  \A a \in Attempts :
    att[a].kind = "issueBatchCard" /\ Ended(a) /\ att[a].result = "ok" =>
      /\ \A i \in HistOf(a) : TB_CARD_ISSUE[i].type = att[a].cardType
      /\ TB_CARD[att[a].emp].type = att[a].cardType

\* C20: when an attempt of issueCard or issueBatchCard has committed, the
\* employee's current-card row exists, was written by that attempt, is active
\* ('Y') and carries the count and the serial of the attempt's history row.
C20_CurrentCardMatchesHistory ==
  \A a \in Attempts :
    Current(a) /\ Ended(a) /\ att[a].result = "ok" =>
      LET c == TB_CARD[att[a].emp] IN
      /\ c.present
      /\ c.att = a
      /\ c.status = "Y"
      /\ Cardinality(HistOf(a)) = 1
      /\ \A i \in HistOf(a) :
           /\ TB_CARD_ISSUE[i].m_no = att[a].emp
           /\ TB_CARD_ISSUE[i].count = c.count
           /\ TB_CARD_ISSUE[i].sno = c.sno

\* a second committed issuance for an employee, a PVC card through issueCard,
\* has overwritten the current-card row of the first
C20_Witness ==
  \E a \in Attempts :
    /\ att[a].kind = "issueCard"
    /\ att[a].cardType = "P"
    /\ Ended(a)
    /\ att[a].result = "ok"
    /\ att[a].maxBefore > 0
    /\ TB_CARD[att[a].emp].count = 0

\* the operations of the buffered writes, in the order they were executed
OpSeq(ws) == [i \in 1..Len(ws) |-> ws[i].op]

IsPrefix(s, t) == Len(s) <= Len(t) /\ SubSeq(t, 1, Len(s)) = s

\* the order in which a call executes its writes
WriteOrder(kind) ==
  IF kind = "issueBatchCard" THEN <<"hist", "del", "card">> ELSE <<"hist", "card">>

\* C21: within an attempt of issueCard or issueBatchCard nothing is inserted,
\* upserted or deleted before the frame was sent and the reply was parsed as
\* a success; the history insert comes first, then the remaining writes, and
\* the commit only after all of them.
C21_WritesAfterParsedSuccess ==
  \A a \in Attempts :
    Current(a) =>
      /\ IsPrefix(OpSeq(att[a].writes), WriteOrder(att[a].kind))
      /\ att[a].writes # <<>> \/ att[a].persisted # {}
            \/ att[a].pc \in {"insert", "delete", "upsert", "commit"} =>
           /\ att[a].frames = 1
           /\ att[a].pstate = "resolved"
           /\ ParseResponse(att[a].pval, TRUE, <<>>).ok
      /\ att[a].pc = "commit" => OpSeq(att[a].writes) = WriteOrder(att[a].kind)
      /\ att[a].persisted # {} => att[a].txFin = "commit"

\* an attempt of issueBatchCard stands before its commit with the history
\* insert, the worklist delete and the upsert executed in that order
C21_Witness ==
  \E a \in Attempts :
    /\ att[a].kind = "issueBatchCard"
    /\ att[a].pc = "commit"
    /\ OpSeq(att[a].writes) = <<"hist", "del", "card">>
    /\ att[a].frames = 1

\* the reply of attempt a has been received and classified
Classified(a) == att[a].pstate = "resolved" /\ att[a].pc # "await_dev"

\* the classification of attempt a's reply was a failure
ClassifiedFailure(a) == att[a].err \in {"dev_empty", "dev_syntax", "dev_rejected"}

\* C22: a reply is classified as a success exactly when it is JSON with
\* result "100" or, when it is not valid JSON, contains the substring "100"
\* or "OK"; every other reply is classified as a failure.
C22_ReplyClassification ==
  \A a \in Attempts :
    Current(a) /\ Classified(a) =>
      LET v == att[a].pval
          p == JSONparse(v)
          res == Prop(p, K_result)
          isSuccessText == IF p.ok THEN res.def /\ res.t = "str" /\ res.v = Code100
                           ELSE Includes(v, Code100) \/ Includes(v, TextOK)
      IN ~ClassifiedFailure(a) <=> isSuccessText

\* the exchange of attempt a has failed: the call was rejected or its reply
\* was classified as a failure
ExchangeFailed(a) ==
  \/ att[a].pstate = "rejected" /\ att[a].pc # "await_dev"
  \/ ClassifiedFailure(a)

\* C24: an attempt opens at most one connection to the device and writes at
\* most one frame; after a failed exchange it neither connects nor sends
\* again, and it ends in failure.
C24_OneConnectionOneFrame ==
  \A a \in Attempts :
    Current(a) =>
      /\ att[a].conns <= 1
      /\ att[a].frames <= att[a].conns
      /\ ExchangeFailed(a) =>
           /\ att[a].pc \in {"rollback", "done", "responded"}
           /\ att[a].sock \notin {"connecting", "open"}
           /\ Ended(a) => att[a].result = "error" /\ att[a].persisted = {}

\* an attempt has ended after a connection error that followed the write of
\* its frame
C24_Witness ==
  \E a \in Attempts :
    /\ Current(a)
    /\ Ended(a)
    /\ att[a].perr = "conn"
    /\ att[a].frames = 1
    /\ att[a].conns = 1
    /\ att[a].result = "error"

\* C28: a call of sendToCardServer that has not settled still has its timer
\* armed, so that it settles at the expiry at the latest, whatever the order
\* of the connect, data, end, error and close events.
C28_SettlesByTimeout ==
  \A a \in Attempts :
    att[a].pstate = "pending" => att[a].timer = "armed"

\* C23: the status of the answer tells the kinds of failure apart: an attempt
\* that failed with the device (timeout, no response, connection error) is
\* answered with a status other than the one of an attempt whose persistence
\* failed or whose employee was not found.
C23_StatusByFailureKind ==
  \A a, b \in Attempts :
    /\ Current(a) /\ att[a].pc = "responded"
    /\ Current(b) /\ att[b].pc = "responded"
    /\ att[a].err \in {"dev_timeout", "dev_noresp", "dev_conn"}
    /\ att[b].err \in {"db_insert", "db_upsert", "db_delete", "db_commit", "not_found"}
    => att[a].status # att[b].status

\* C25: the program destroys the device socket only when the transport timer
\* expires; the disconnect of the HTTP client and the 90-second route timeout
\* change nothing of the exchange, of the transaction or of the tables, so
\* the attempt goes on to its commit or rollback.
C25_OnlyTransportTimerAborts ==
  [][LET ServiceState(r) ==
           [r EXCEPT !.routeFired = FALSE, !.clientGone = FALSE, !.headersSent = FALSE,
                     !.responses = 0, !.status = 0, !.success = FALSE, !.unhandled = FALSE]
     IN
     \A a \in Attempts :
       /\ att[a].sock # "destroyed" /\ att'[a].sock = "destroyed" =>
            att[a].timer = "armed" /\ att'[a].timer = "fired"
       /\ (~att[a].routeFired /\ att'[a].routeFired)
             \/ (~att[a].clientGone /\ att'[a].clientGone) =>
            /\ ServiceState(att'[a]) = ServiceState(att[a])
            /\ UNCHANGED <<TB_CARD_ISSUE, TB_CARD, TB_CARD_BATCH_SAV>>]_vars

\* a request whose client went away and whose route timeout fired has
\* committed its rows, its transport timer cleared by the end of the reply
C25_Witness ==
  \E a \in Attempts :
    /\ Current(a)
    /\ att[a].routeFired
    /\ att[a].clientGone
    /\ att[a].timer = "cleared"
    /\ att[a].result = "ok"
    /\ att[a].txFin = "commit"
    /\ HistOf(a) # {}

\* C30: at most one response is written for a request, whichever of the
\* route timeout and the controller comes first.
C30_AtMostOneResponse ==
  \A a \in Attempts :
    /\ att[a].responses <= 1
    /\ att[a].headersSent <=> att[a].responses = 1
    /\ att[a].unhandled => att[a].routeFired /\ att[a].status = 408

\* the route timeout has answered 408 and the controller, whose service call
\* committed afterwards, has tried to answer too
C30_Witness ==
  \E a \in Attempts :
    /\ att[a].pc = "responded"
    /\ att[a].routeFired
    /\ att[a].unhandled
    /\ att[a].result = "ok"
    /\ att[a].status = 408
    /\ att[a].responses = 1

\* C26: a call has reported success exactly when its transaction committed:
\* a call that ended with an error has left no history row, and a call whose
\* rows are committed has returned its result.
C26_SuccessIffCommitted ==
  \A a \in Attempts :
    Ended(a) => (att[a].result = "ok" <=> HistOf(a) # {})

\* C27: a transaction that was begun is finished exactly once before its
\* call returns or throws, by a commit or by a rollback, and rollback is
\* never called on a transaction that is committed or rolled back already.
C27_FinishedExactlyOnce ==
  \A a \in Attempts :
    /\ att[a].err # "rollback_finished"
    /\ Ended(a) /\ att[a].txRef => att[a].txFin \in {"commit", "rollback"}

\* C29: one worklist entry leads to at most one exchange that ends in a
\* committed issuance: two calls of issueBatchCard for the same employee and
\* issuer never both send a frame and both commit a history row.
C29_OneIssuancePerEntry ==
  \A a, b \in Attempts :
    /\ a # b
    /\ att[a].kind = "issueBatchCard" /\ att[b].kind = "issueBatchCard"
    /\ att[a].emp = att[b].emp
    /\ att[a].frames >= 1 /\ att[b].frames >= 1
    => ~(HistOf(a) # {} /\ HistOf(b) # {})

====
